---- MODULE Spec2Model ----
(***************************************************************************)
(* A model of kenchi's detector contract layer and of plot_anomaly_score.  *)
(*                                                                         *)
(*   kenchi/outlier_detection/base.py  BaseDetector  (labels 1 / -1)       *)
(*   kenchi/base.py                    BaseDetector + DetectorMixin        *)
(*                                     (labels 0 / 1, F1-like score)       *)
(*   kenchi/visualization.py           plot_anomaly_score                  *)
(*                                                                         *)
(* The abstract methods (fit, anomaly_score, compute_anomaly_score and the *)
(* outlier_detection score) have no body in the sources.  They are given a *)
(* small concrete detector here: fit learns the componentwise minimum of   *)
(* the training rows, a row's anomaly score is its L1 distance to it, and  *)
(* the threshold is half the largest training score.  What anomaly_score   *)
(* returns for X = None is left to the concrete detector: one kind scores  *)
(* the training rows as it scores any X, another scores each training row  *)
(* against the other training rows only (leave-one-out).                   *)
(*                                                                         *)
(* An optional argument is a sequence of length 0 (None) or 1 (the value). *)
(* A call's outcome is a record [out, val]: out is "return" or the name of *)
(* the exception raised.  Real numbers are exact rationals plus nan / inf. *)
(***************************************************************************)
EXTENDS Integers, Sequences, FiniteSets, TLC

VARIABLES cfg, det, last, saved, pc

vars == <<cfg, det, last, saved, pc>>

(* ------------------------------- bounds ------------------------------- *)

\* Largest number of samples in an array.
MaxLen == 2

\* Feature values; a sample is a row of two features.
Vals == {0, 1}

Rows == Vals \X Vals

Arrays == UNION {[1..n -> Rows] : n \in 0..MaxLen}

\* Values an anomaly score or a caller-supplied threshold takes.
ScoreVals == {0, 1, 2}

ScoreArrays == UNION {[1..n -> ScoreVals] : n \in 0..MaxLen}

LabelArrays == UNION {[1..n -> {0, 1}] : n \in 0..MaxLen}

FilePaths == {"a.png", "b.png"}

(* ------------------------------ optionals ----------------------------- *)

None == <<>>

Some(v) == <<v>>

Opt(S) == {None} \cup {Some(v) : v \in S}

Return(v) == [out |-> "return", val |-> v]

Raise(e) == [out |-> e, val |-> <<>>]

(* ------------------------- exact real arithmetic ---------------------- *)

Abs(a) == IF a < 0 THEN -a ELSE a

RECURSIVE GCD(_, _)
GCD(a, b) == IF b = 0 THEN a ELSE GCD(b, a % b)

NaN == [kind |-> "nan", n |-> 0, d |-> 1]

Inf == [kind |-> "inf", n |-> 1, d |-> 0]

\* The rational n / d, d > 0, n >= 0, in lowest terms.
Rat(n, d) == LET g == GCD(n, d) IN [kind |-> "num", n |-> n \div g, d |-> d \div g]

\* numpy true division of two non-negative numbers: x / 0 warns and gives
\* nan (x = 0) or inf (x > 0); it never raises.
FDiv(x, y) ==
    IF x.kind = "nan" \/ y.kind = "nan" THEN NaN
    ELSE IF x.kind = "inf" THEN (IF y.kind = "inf" THEN NaN ELSE Inf)
    ELSE IF y.kind = "inf" THEN Rat(0, 1)
    ELSE IF y.n = 0 THEN (IF x.n = 0 THEN NaN ELSE Inf)
    ELSE Rat(x.n * y.d, x.d * y.n)

FMul(x, y) ==
    IF x.kind = "nan" \/ y.kind = "nan" THEN NaN
    ELSE IF x.kind = "inf" THEN (IF y.kind = "num" /\ y.n = 0 THEN NaN ELSE Inf)
    ELSE IF y.kind = "inf" THEN (IF x.n = 0 THEN NaN ELSE Inf)
    ELSE Rat(x.n * y.n, x.d * y.d)

FAdd(x, y) ==
    IF x.kind = "nan" \/ y.kind = "nan" THEN NaN
    ELSE IF x.kind = "inf" \/ y.kind = "inf" THEN Inf
    ELSE Rat(x.n * y.d + y.n * x.d, x.d * y.d)

(* ----------------------- the detector's state ------------------------- *)

\* A threshold as the detector stores it: a Python float, a scalar of another
\* type (a Python int, a numpy.float32, ...) or a per-feature array.
Threshold(kind, val, arr) == [kind |-> kind, val |-> val, arr |-> arr]

\* The detector after construction: no fitted attribute is set.
NoDet ==
    [fitted |-> FALSE, loo |-> FALSE, loc_ |-> <<0, 0>>,
     threshold_ |-> Threshold("float", 0, <<>>), X_ |-> <<>>]

\* The detectors constructed: the 1 / -1 base class, scoring its training rows
\* (X = None) as any X or leave-one-out, and the 0 / 1 base class with each
\* kind of threshold its fit may store.
Configs ==
    {[cls |-> "od", kind |-> "float", loo |-> b] : b \in BOOLEAN}
        \cup {[cls |-> "kb", kind |-> k, loo |-> FALSE] :
                  k \in {"float", "int", "array"}}

(* ----------------------- input validation (sklearn) ------------------- *)

\* check_array(X): X must be an array with at least one sample.
check_array(Xo) == Xo # None /\ Len(Xo[1]) >= 1

\* check_X_y(X, y): X as for check_array and y of the same length.
check_X_y(Xo, y) == check_array(Xo) /\ Len(y) = Len(Xo[1])

(* ------------------ the concrete detector's own methods --------------- *)

MinOf(S) == CHOOSE m \in S : \A x \in S : m <= x

MaxOf(S) == CHOOSE m \in S : \A x \in S : x <= m

row_score(loc, r) == Abs(r[1] - loc[1]) + Abs(r[2] - loc[2])

row_feature_score(loc, r) == <<Abs(r[1] - loc[1]), Abs(r[2] - loc[2])>>

\* The componentwise minimum of the rows of X with indices in I.
location(X, I) == <<MinOf({X[i][1] : i \in I}), MinOf({X[i][2] : i \in I})>>

\* The score of training row i against the other training rows; a lone row
\* scores 0.
loo_score(X, i) ==
    LET others == (1..Len(X)) \ {i}
    IN IF others = {} THEN 0 ELSE row_score(location(X, others), X[i])

\* What fit learns from the training rows X (at least one row) for a detector
\* constructed with configuration c. Only the 1 / -1 class, whose anomaly_score
\* takes X = None, keeps the training rows.
fitted_state(c, X) ==
    LET n == Len(X)
        loc == location(X, 1..n)
        sc == [i \in 1..n |-> row_score(loc, X[i])]
        top == MaxOf({sc[i] : i \in 1..n})
        ftop(j) == MaxOf({row_feature_score(loc, X[i])[j] : i \in 1..n})
    IN [fitted |-> TRUE,
        loo |-> c.loo,
        loc_ |-> loc,
        threshold_ |-> IF c.kind = "array"
                       THEN Threshold("array", 0, <<ftop(1) \div 2, ftop(2) \div 2>>)
                       ELSE Threshold(c.kind, top \div 2, <<>>),
        X_ |-> IF c.cls = "od" THEN X ELSE <<>>]

\* fit(X): [out, val, det]: validates X, then learns; an invalid X raises
\* before anything is learned. It returns self.
fit(c, d, Xo) ==
    IF ~check_array(Xo)
    THEN [out |-> "ValueError", val |-> <<>>, det |-> d]
    ELSE [out |-> "return", val |-> "self", det |-> fitted_state(c, Xo[1])]

\* outlier_detection anomaly_score(X=None): one score per sample, computed on
\* each call; with no X, the scores of the training rows, leave-one-out for a
\* detector of that kind.
anomaly_score(d, Xo) ==
    IF ~d.fitted THEN Raise("NotFittedError")
    ELSE IF Xo = None
    THEN Return([i \in 1..Len(d.X_) |->
                    IF d.loo THEN loo_score(d.X_, i) ELSE row_score(d.loc_, d.X_[i])])
    ELSE IF ~check_array(Xo) THEN Raise("ValueError")
    ELSE Return([i \in 1..Len(Xo[1]) |-> row_score(d.loc_, Xo[1][i])])

\* kenchi.base compute_anomaly_score(X) of a fitted detector: [ndim, val],
\* one score per sample, or one per sample and feature for a detector with a
\* per-feature threshold.
compute_anomaly_score(d, X) ==
    IF d.threshold_.kind = "array"
    THEN [ndim |-> 2, val |-> [i \in 1..Len(X) |-> row_feature_score(d.loc_, X[i])]]
    ELSE [ndim |-> 1, val |-> [i \in 1..Len(X) |-> row_score(d.loc_, X[i])]]

\* outlier_detection score(X, y=None): a number computed from the fitted
\* state and X.
od_score(d, Xo) ==
    LET s == anomaly_score(d, Xo)
    IN IF s.out # "return" THEN s
       ELSE Return(Len(SelectSeq(s.val, LAMBDA v : v <= d.threshold_.val)))

(* --------- kenchi/outlier_detection/base.py: labels 1 and -1 ---------- *)

\* check_is_fitted(self, 'threshold_')
check_is_fitted(d) == d.fitted

\* A variant of where_le that compares strictly.
where_lt(scores, threshold) ==
    [i \in 1..Len(scores) |-> IF scores[i] < threshold THEN 1 ELSE -1]

\* np.where(scores <= threshold, 1, -1)
where_le(scores, threshold) ==
    [i \in 1..Len(scores) |-> IF scores[i] <= threshold THEN 1 ELSE -1]

\* A variant of od_predict that tests the override for truth, not for None:
\* an override of 0 falls back to the fitted threshold.
od_predict_falsy(d, Xo, to) ==
    IF ~check_is_fitted(d) THEN Raise("NotFittedError")
    ELSE LET threshold == IF to = None \/ to[1] = 0 THEN d.threshold_.val ELSE to[1]
             s == anomaly_score(d, Xo)
         IN IF s.out # "return" THEN s ELSE Return(where_le(s.val, threshold))

\* BaseDetector.predict(X=None, threshold=None)
od_predict(d, Xo, to) ==
    IF ~check_is_fitted(d) THEN Raise("NotFittedError")
    ELSE LET threshold == IF to = None THEN d.threshold_.val ELSE to[1]
             s == anomaly_score(d, Xo)
         IN IF s.out # "return" THEN s ELSE Return(where_le(s.val, threshold))

\* BaseDetector.fit_predict(X, y=None, threshold=None):
\* self.fit(X).predict(threshold=threshold); [out, val, det].
od_fit_predict(c, d, Xo, to) ==
    LET f == fit(c, d, Xo)
    IN IF f.out # "return" THEN f
       ELSE LET p == od_predict(f.det, None, to)
            IN [out |-> p.out, val |-> p.val, det |-> f.det]

(* ----------------- kenchi/base.py: labels 0 and 1 --------------------- *)

\* isinstance(self._threshold, float)
is_float(t) == t.kind = "float"

\* The threshold a score of feature j is compared with (numpy broadcasting).
feature_threshold(t, j) == IF t.kind = "array" THEN t.arr[j] ELSE t.val

\* BaseDetector.predict(X)
kb_predict(d, Xo) ==
    IF ~check_array(Xo) THEN Raise("ValueError")
    ELSE IF ~d.fitted THEN Raise("AttributeError")
    ELSE LET t == d.threshold_
             s == compute_anomaly_score(d, Xo[1])
             n == Len(s.val)
         IN IF is_float(t)
            THEN Return([i \in 1..n |-> IF s.val[i] > t.val THEN 1 ELSE 0])
            ELSE IF s.ndim = 1 THEN Raise("AxisError")
            ELSE Return([i \in 1..n |->
                     IF \E j \in 1..2 : s.val[i][j] > feature_threshold(t, j)
                     THEN 1 ELSE 0])

\* BaseDetector.fit_predict(X, y=None): self.fit(X, y).predict(X)
kb_fit_predict(c, d, Xo) ==
    LET f == fit(c, d, Xo)
    IN IF f.out # "return" THEN f
       ELSE LET p == kb_predict(f.det, Xo)
            IN [out |-> p.out, val |-> p.val, det |-> f.det]

\* confusion_matrix(y, pred, [1, 0]) ravelled: tp, fn, fp, tn.
count(y, p, a, b) == Cardinality({i \in 1..Len(y) : y[i] = a /\ p[i] = b})

confusion_matrix(y, p) ==
    [tp |-> count(y, p, 1, 1), fn |-> count(y, p, 1, 0),
     fp |-> count(y, p, 0, 1), tn |-> count(y, p, 0, 0)]

\* The value score computes from the confusion matrix.
score_value(m) ==
    LET r0 == FDiv(Rat(m.tn, 1), Rat(m.fp + m.tn, 1))
        r1 == FDiv(Rat(m.tp, 1), Rat(m.tp + m.fn, 1))
    IN FDiv(FMul(FMul(Rat(2, 1), r0), r1), FAdd(r0, r1))

\* DetectorMixin.score(X, y)
score(d, Xo, y) ==
    IF ~check_X_y(Xo, y) THEN Raise("ValueError")
    ELSE LET p == kb_predict(d, Xo)
         IN IF p.out # "return" THEN p
            ELSE Return(score_value(confusion_matrix(y, p.val)))

(* ------------- kenchi/visualization.py: plot_anomaly_score ------------ *)

\* plot_anomaly_score(anomaly_score, ax, filepath, hist, ylim), the other
\* arguments at their defaults: [out, val, saves], saves the files written.
plot_anomaly_score(a, axo, filepatho, hist, ylimo) ==
    LET ax == IF axo = None THEN "new axes" ELSE axo[1]
    IN IF ylimo = None /\ Len(a) = 0
       THEN [out |-> "ValueError", val |-> <<>>, saves |-> {}]
       ELSE [out |-> "return", val |-> ax,
             saves |-> IF filepatho = None THEN {} ELSE {filepatho[1]}]

\* plot_roc_curve(y_true, y_score, ax, filepath), the other arguments at
\* their defaults: [out, val, saves]. roc_curve raises on arrays of different
\* lengths and on empty arrays (e, the exception it raises on empty arrays,
\* depends on the library's version); with one class absent from y_true it
\* warns and the curve is drawn all the same.
plot_roc_curve(y_true, y_score, axo, filepatho, e) ==
    LET ax == IF axo = None THEN "new axes" ELSE axo[1]
    IN IF Len(y_true) # Len(y_score)
       THEN [out |-> "ValueError", val |-> <<>>, saves |-> {}]
       ELSE IF Len(y_true) = 0
       THEN [out |-> e, val |-> <<>>, saves |-> {}]
       ELSE [out |-> "return", val |-> ax,
             saves |-> IF filepatho = None THEN {} ELSE {filepatho[1]}]

\* plot_graphical_model(partial_corrcoef, ax, filepath), the other arguments
\* at their defaults: [out, val, saves]. When graphviz_layout raises ImportError
\* (graphviz FALSE) the fallback calls nx.spling_layout, which networkx does
\* not have.
plot_graphical_model(m, axo, filepatho, graphviz) ==
    LET ax == IF axo = None THEN "new axes" ELSE axo[1]
    IN IF ~graphviz
       THEN [out |-> "AttributeError", val |-> <<>>, saves |-> {}]
       ELSE [out |-> "return", val |-> ax,
             saves |-> IF filepatho = None THEN {} ELSE {filepatho[1]}]

\* plot_partial_corrcoef(partial_corrcoef, ax, cbar, filepath), the other
\* arguments at their defaults: [out, val, saves].
plot_partial_corrcoef(m, axo, cbar, filepatho) ==
    LET ax == IF axo = None THEN "new axes" ELSE axo[1]
    IN [out |-> "return", val |-> ax,
        saves |-> IF filepatho = None THEN {} ELSE {filepatho[1]}]

(* ------------------------------ the calls ----------------------------- *)

\* The record of a call: its arguments and its outcome.
Call(op, Xo, to, y, r) ==
    [op |-> op, X |-> Xo, threshold |-> to, y |-> y, out |-> r.out, val |-> r.val]

NoCall == Call("init", None, None, <<>>, Return(<<>>))

Init ==
    /\ cfg \in Configs
    /\ det = [NoDet EXCEPT !.loo = cfg.loo]
    /\ last = NoCall
    /\ saved = {}
    /\ pc = "idle"

ODFit ==
    \E Xo \in Opt(Arrays) :
        LET f == fit(cfg, det, Xo)
        IN /\ pc = "idle"
           /\ pc' = "returned"
           /\ pc = "idle"
        /\ pc' = "returned"
        /\ cfg.cls = "od"
           /\ det' = f.det
           /\ last' = Call("fit", Xo, None, <<>>, f)
           /\ UNCHANGED <<cfg, saved>>

\* A variant of ODPredict that stores the override in the detector.
ODPredictPersist ==
    \E Xo \in Opt(Arrays), to \in Opt(ScoreVals) :
        /\ pc = "idle"
        /\ pc' = "returned"
        /\ cfg.cls = "od"
        /\ last' = Call("predict", Xo, to, <<>>, od_predict(det, Xo, to))
        /\ det' = IF det.fitted /\ to # None
                  THEN [det EXCEPT !.threshold_ = Threshold("float", to[1], <<>>)]
                  ELSE det
        /\ UNCHANGED <<cfg, saved>>

ODPredict ==
    \E Xo \in Opt(Arrays), to \in Opt(ScoreVals) :
        /\ pc = "idle"
        /\ pc' = "returned"
        /\ cfg.cls = "od"
        /\ last' = Call("predict", Xo, to, <<>>, od_predict(det, Xo, to))
        /\ UNCHANGED <<cfg, det, saved>>

ODFitPredict ==
    \E Xo \in Opt(Arrays), to \in Opt(ScoreVals) :
        LET r == od_fit_predict(cfg, det, Xo, to)
        IN /\ pc = "idle"
           /\ pc' = "returned"
           /\ pc = "idle"
        /\ pc' = "returned"
        /\ cfg.cls = "od"
           /\ det' = r.det
           /\ last' = Call("fit_predict", Xo, to, <<>>, r)
           /\ UNCHANGED <<cfg, saved>>

ODAnomalyScore ==
    \E Xo \in Opt(Arrays) :
        /\ pc = "idle"
        /\ pc' = "returned"
        /\ cfg.cls = "od"
        /\ last' = Call("anomaly_score", Xo, None, <<>>, anomaly_score(det, Xo))
        /\ UNCHANGED <<cfg, det, saved>>

ODScore ==
    \E Xo \in Opt(Arrays) :
        /\ pc = "idle"
        /\ pc' = "returned"
        /\ cfg.cls = "od"
        /\ last' = Call("score", Xo, None, <<>>, od_score(det, Xo))
        /\ UNCHANGED <<cfg, det, saved>>

KBFit ==
    \E Xo \in Opt(Arrays) :
        LET f == fit(cfg, det, Xo)
        IN /\ pc = "idle"
           /\ pc' = "returned"
           /\ pc = "idle"
        /\ pc' = "returned"
        /\ cfg.cls = "kb"
           /\ det' = f.det
           /\ last' = Call("fit", Xo, None, <<>>, f)
           /\ UNCHANGED <<cfg, saved>>

KBPredict ==
    \E Xo \in Opt(Arrays) :
        /\ pc = "idle"
        /\ pc' = "returned"
        /\ cfg.cls = "kb"
        /\ last' = Call("predict", Xo, None, <<>>, kb_predict(det, Xo))
        /\ UNCHANGED <<cfg, det, saved>>

KBFitPredict ==
    \E Xo \in Opt(Arrays) :
        LET r == kb_fit_predict(cfg, det, Xo)
        IN /\ pc = "idle"
           /\ pc' = "returned"
           /\ pc = "idle"
        /\ pc' = "returned"
        /\ cfg.cls = "kb"
           /\ det' = r.det
           /\ last' = Call("fit_predict", Xo, None, <<>>, r)
           /\ UNCHANGED <<cfg, saved>>

KBComputeAnomalyScore ==
    \E X \in Arrays :
        /\ pc = "idle"
        /\ pc' = "returned"
        /\ cfg.cls = "kb"
        /\ det.fitted
        /\ Len(X) >= 1
        /\ last' = Call("anomaly_score", Some(X), None, <<>>,
                        Return(compute_anomaly_score(det, X).val))
        /\ UNCHANGED <<cfg, det, saved>>

KBScore ==
    \E Xo \in Opt(Arrays), y \in LabelArrays :
        /\ pc = "idle"
        /\ pc' = "returned"
        /\ cfg.cls = "kb"
        /\ last' = Call("score", Xo, None, y, score(det, Xo, y))
        /\ UNCHANGED <<cfg, det, saved>>

\* The caller takes the outcome of its call and goes on to its next call:
\* calls are synchronous and made one at a time.
Resume ==
    /\ pc = "returned"
    /\ pc' = "idle"
    /\ last' = NoCall
    /\ UNCHANGED <<cfg, det, saved>>

Next ==
    \/ ODFit
    \/ ODPredict
    \/ ODFitPredict
    \/ ODAnomalyScore
    \/ ODScore
    \/ KBFit
    \/ KBPredict
    \/ KBFitPredict
    \/ KBComputeAnomalyScore
    \/ KBScore
    \/ Resume

Spec == Init /\ [][Next]_vars

(* ------------------------ plotting, on its own ------------------------ *)

PlotCall(a, axo, filepatho, hist, ylimo, r) ==
    [op |-> "plot_anomaly_score", a |-> a, ax |-> axo, filepath |-> filepatho,
     hist |-> hist, ylim |-> ylimo, out |-> r.out, val |-> r.val]

PlotInit ==
    /\ cfg = [cls |-> "od", kind |-> "float", loo |-> FALSE]
    /\ det = NoDet
    /\ last = NoCall
    /\ saved = {}
    /\ pc = "idle"

Plot ==
    \E a \in ScoreArrays, axo \in Opt({"ax0"}), filepatho \in Opt(FilePaths),
       hist \in BOOLEAN, ylimo \in Opt({<<0, 3>>}) :
        LET r == plot_anomaly_score(a, axo, filepatho, hist, ylimo)
        IN /\ pc = "idle"
           /\ pc' = "returned"
           /\ last' = PlotCall(a, axo, filepatho, hist, ylimo, r)
           /\ saved' = saved \cup r.saves
           /\ UNCHANGED <<cfg, det>>

\* True labels as plot_roc_curve takes them: -1 the positive class.
RocLabelArrays == UNION {[1..n -> {1, -1}] : n \in 0..MaxLen}

\* Square partial correlation matrices.
Matrices == UNION {[1..n -> [1..n -> {-1, 0, 1}]] : n \in 1..MaxLen}

PlotRocCurve ==
    \E y_true \in RocLabelArrays, y_score \in ScoreArrays, axo \in Opt({"ax0"}),
       filepatho \in Opt(FilePaths), e \in {"IndexError", "ValueError"} :
        LET r == plot_roc_curve(y_true, y_score, axo, filepatho, e)
        IN /\ pc = "idle"
           /\ pc' = "returned"
           /\ last' = [op |-> "plot_roc_curve", y_true |-> y_true,
                       y_score |-> y_score, ax |-> axo, filepath |-> filepatho,
                       out |-> r.out, val |-> r.val]
           /\ saved' = saved \cup r.saves
           /\ UNCHANGED <<cfg, det>>

PlotGraphicalModel ==
    \E m \in Matrices, axo \in Opt({"ax0"}), filepatho \in Opt(FilePaths),
       graphviz \in BOOLEAN :
        LET r == plot_graphical_model(m, axo, filepatho, graphviz)
        IN /\ pc = "idle"
           /\ pc' = "returned"
           /\ last' = [op |-> "plot_graphical_model", partial_corrcoef |-> m,
                       ax |-> axo, filepath |-> filepatho, out |-> r.out,
                       val |-> r.val]
           /\ saved' = saved \cup r.saves
           /\ UNCHANGED <<cfg, det>>

PlotPartialCorrcoef ==
    \E m \in Matrices, axo \in Opt({"ax0"}), cbar \in BOOLEAN,
       filepatho \in Opt(FilePaths) :
        LET r == plot_partial_corrcoef(m, axo, cbar, filepatho)
        IN /\ pc = "idle"
           /\ pc' = "returned"
           /\ last' = [op |-> "plot_partial_corrcoef", partial_corrcoef |-> m,
                       ax |-> axo, cbar |-> cbar, filepath |-> filepatho,
                       out |-> r.out, val |-> r.val]
           /\ saved' = saved \cup r.saves
           /\ UNCHANGED <<cfg, det>>

PlotNext ==
    \/ Plot
    \/ PlotRocCurve
    \/ PlotGraphicalModel
    \/ PlotPartialCorrcoef
    \/ Resume

SpecPlot == PlotInit /\ [][PlotNext]_vars

(* ------------------------------ properties ---------------------------- *)

\* The number of samples a call was made on: those of X, or the training
\* samples when X is None.
n_samples(d, Xo) == IF Xo = None THEN Len(d.X_) ELSE Len(Xo[1])

BothClasses(y) == (\E i \in 1..Len(y) : y[i] = 1) /\ (\E i \in 1..Len(y) : y[i] = 0)

\* C1: predict on a detector that was never fitted raises the not-fitted error
\* whatever X and threshold are, and predict on a fitted detector does not
\* raise it.
C1_PredictBeforeFit ==
    last.op = "predict" =>
        IF det.fitted THEN last.out # "NotFittedError" ELSE last.out = "NotFittedError"

\* C2: on a fitted detector of the 1 / -1 class, predict with an override t
\* labels each sample by comparing its score with t and not with threshold_:
\* the labels are those of the same detector with threshold_ = t.
C2_ThresholdOverride ==
    (cfg.cls = "od" /\ last.op = "predict" /\ det.fitted /\ last.threshold # None) =>
        LET t == last.threshold[1]
            s == anomaly_score(det, last.X)
            dt == [det EXCEPT !.threshold_ = Threshold("float", t, <<>>)]
        IN /\ last.out = s.out
           /\ s.out = "return" =>
                /\ Len(last.val) = Len(s.val)
                /\ \A i \in 1..Len(s.val) :
                       last.val[i] = (IF s.val[i] <= t THEN 1 ELSE -1)
                /\ last.val = od_predict(dt, last.X, None).val

\* C2 witness: an override other than the fitted threshold gave labels other
\* than the fitted threshold gives.
C2_Witness ==
    /\ cfg.cls = "od" /\ last.op = "predict" /\ det.fitted
    /\ last.threshold # None /\ last.out = "return"
    /\ last.threshold[1] # det.threshold_.val
    /\ last.val # od_predict(det, last.X, None).val

\* C3: fit_predict(X) without an override has the outcome of fit(X) followed
\* by predict(X), labels included, and leaves the detector as fit(X) leaves
\* it, in both base classes.
C3_FitPredictIsFitThenPredict ==
    (last.op = "fit_predict" /\ last.threshold = None) =>
        LET f == fit(cfg, det, last.X)
            p == IF cfg.cls = "od" THEN od_predict(f.det, last.X, None)
                 ELSE kb_predict(f.det, last.X)
        IN IF f.out # "return"
           THEN last.out = f.out
           ELSE last.out = p.out /\ last.val = p.val /\ det = f.det

\* C4: predict of the 1 / -1 class returns one label per sample, each 1 or -1,
\* and 1 exactly for a score at most the threshold in force.
C4_LabelsOneMinusOne ==
    (cfg.cls = "od" /\ last.op = "predict" /\ last.out = "return") =>
        LET thr == IF last.threshold = None THEN det.threshold_.val
                   ELSE last.threshold[1]
            s == anomaly_score(det, last.X).val
        IN /\ Len(last.val) = n_samples(det, last.X)
           /\ \A i \in 1..Len(last.val) :
                  /\ last.val[i] \in {1, -1}
                  /\ (last.val[i] = 1) <=> (s[i] <= thr)

\* C4 witness: predict returned an inlier whose score equals the threshold in
\* force and an outlier.
C4_Witness ==
    /\ cfg.cls = "od" /\ last.op = "predict" /\ last.out = "return"
    /\ \E i, j \in 1..Len(last.val) :
           /\ last.val[i] = 1 /\ last.val[j] = -1
           /\ anomaly_score(det, last.X).val[i] =
                  (IF last.threshold = None THEN det.threshold_.val
                   ELSE last.threshold[1])

\* C5: score raises whenever y holds no sample of one of the classes; it then
\* returns nothing, NaN included.
C5_ScoreRaisesOnAbsentClass ==
    (cfg.cls = "kb" /\ last.op = "score" /\ check_X_y(last.X, last.y)
        /\ ~BothClasses(last.y)) => last.out # "return"

\* C6: score returns 1 when the predicted labels equal y, and a number below
\* 1 when a sample is mislabelled (y holding both classes).
C6_ScoreOneIffPerfect ==
    (cfg.cls = "kb" /\ last.op = "score" /\ last.out = "return"
        /\ BothClasses(last.y)) =>
        LET p == kb_predict(det, last.X).val
        IN /\ last.val.kind = "num"
           /\ IF p = last.y THEN last.val.n = last.val.d
              ELSE last.val.n < last.val.d

\* C7: score returns the F1 score with 1 the positive class,
\* 2 tp / (2 tp + fp + fn), when y holds both classes.
C7_ScoreIsF1 ==
    (cfg.cls = "kb" /\ last.op = "score" /\ last.out = "return"
        /\ BothClasses(last.y)) =>
        LET m == confusion_matrix(last.y, kb_predict(det, last.X).val)
        IN /\ last.val.kind = "num"
           /\ last.val.n * (2 * m.tp + m.fp + m.fn) = last.val.d * 2 * m.tp

\* C8: plot_anomaly_score on an array of no or one score, the other arguments
\* at their defaults, returns the axes it drew on, and has saved the figure
\* when a filepath was given.
C8_PlotSmallArrays ==
    (last.op = "plot_anomaly_score" /\ Len(last.a) <= 1 /\ last.ax = None
        /\ last.ylim = None /\ last.hist) =>
        /\ last.out = "return"
        /\ last.val = "new axes"
        /\ last.filepath # None => last.filepath[1] \in saved

\* C9: a call other than fit and fit_predict leaves the detector's fitted
\* state as it was, the threshold included: an override is not stored.
C9_QueriesDoNotMutate ==
    [][last'.op \notin {"fit", "fit_predict"} => det' = det]_vars

\* C9 witness: a fitted detector answered a predict with an override other
\* than its threshold.
C9_Witness ==
    /\ last.op = "predict" /\ det.fitted /\ last.out = "return"
    /\ last.threshold # None
    /\ last.threshold[1] # det.threshold_.val

\* C10: predict of the 0 / 1 class, on a fitted detector and a valid X,
\* returns one label per sample: with a scalar threshold 1 exactly for a score
\* above it, with a per-feature threshold 1 exactly when a feature's score is
\* above that feature's threshold.
C10_LabelsZeroOne ==
    (cfg.cls = "kb" /\ last.op = "predict" /\ det.fitted /\ check_array(last.X)) =>
        LET X == last.X[1]
            t == det.threshold_
        IN /\ last.out = "return"
           /\ Len(last.val) = Len(X)
           /\ \A i \in 1..Len(X) :
                  last.val[i] =
                      IF t.kind = "array"
                      THEN (IF \E j \in 1..2 :
                                   row_feature_score(det.loc_, X[i])[j] > t.arr[j]
                            THEN 1 ELSE 0)
                      ELSE (IF row_score(det.loc_, X[i]) > t.val THEN 1 ELSE 0)

====
